---- MODULE Spec2Model ----
(***************************************************************************)
(* CDynamicBitSet<BlockType> of src/C++/BitSet.hpp as a state machine.     *)
(*                                                                         *)
(* A block (word) is an unsigned integer of m_block_size bits, kept as a   *)
(* natural number below 2^m_block_size.  m_data is the heap array the      *)
(* pointer m_data of the class points to, indexed from 0 as *(m_data + i); *)
(* its domain is the allocation (new BlockType[n] gives 0 .. n-1).         *)
(* The model covers BlockType = uint8_t and uint16_t, for which the shifts *)
(* BlockType{ 1 } << s are made in int and are defined for every s used.   *)
(* The const queries (test, operator[], all, any, none, count) are         *)
(* operators over the current state; each mutating method is an action.    *)
(* last and pre record the call that produced the current state and the    *)
(* object as it was before that call.                                      *)
(*                                                                         *)
(* Six specifications are given.  Spec is a construction followed by one   *)
(* call with arguments inside the object.  SpecGrow is a construction      *)
(* followed by up to MaxCalls growing or shrinking calls (push_back,       *)
(* pop_back, push_back_block, pop_back_block, resize) on the one object.   *)
(* SpecCopy follows several instances, whose members are kept in objs and  *)
(* whose arrays are kept in heap, through copy and move construction and   *)
(* assignment, destruction and growth.  SpecRange is a construction        *)
(* followed by one range call with any arguments, or by one pattern fill.  *)
(* SpecLoop follows the strided loops pass by pass, the position kept in   *)
(* loop.  SpecPair runs a CBitSet<BlockType, Size>, whose array is kept in *)
(* fixed, alongside a CDynamicBitSet of the same size through one call.    *)
(***************************************************************************)
EXTENDS Integers, Sequences, FiniteSets, TLC

VARIABLES
    m_block_size,    \* static constexpr m_block_size = sizeof(BlockType) * 8
    m_data,          \* the array m_data points to
    m_null,          \* TRUE iff the pointer m_data is nullptr
    m_size,          \* size in bits
    m_storage_size,  \* size in blocks
    fault,           \* "none", or the undefined behaviour / termination the last call ran into
    last,            \* the last call: its name and arguments
    pre,             \* m_data, m_size, m_storage_size before the last call
    ncalls,          \* number of calls made on the object since construction
    objs,            \* where several instances are followed: the members of each
    heap,            \* and the arrays new BlockType[n] has returned, in order
    loop,            \* where a call is followed step by step: the loop it is in
    fixed            \* where a CBitSet<BlockType, Size> is run alongside: its array m_data

vars ==
    <<m_block_size, m_data, m_null, m_size, m_storage_size, fault, last, pre, ncalls,
      objs, heap, loop, fixed>>

\* Largest size (in bits) an object is constructed with.
MaxSize == 26
\* Largest step of a strided range call.
MaxStep == 3
\* Largest number of growing and shrinking calls made in a row on one object.
MaxCalls == 3
\* Largest number of calls made on the instances of a copy and move behaviour.
MaxCopyCalls == 2
\* Largest number of blocks in the list a list constructor is called with.
MaxList == 2
\* How far past the size the arguments of a range call reach, in bits.
MaxPast == 2
\* The instantiations explored: BlockType = uint8_t and uint16_t.
BlockWidths == {8, 16}

BitsPerByte == 8

----------------------------------------------------------------------------
(* Unsigned integer arithmetic on blocks *)

Pow2(n) == 2 ^ n

\* sizeof(BlockType)
SizeOf(W) == W \div BitsPerByte

\* (std::numeric_limits<BlockType>::max)()
max_value(W) == Pow2(W) - 1

\* bit k of the unsigned value w (0 or 1)
Bit(w, k) == (w \div Pow2(k)) % 2

\* w |= BlockType{ 1 } << s.  For uint8_t and uint16_t the shift is made in int, so
\* s = W is defined and gives 2^W, which the store back into BlockType truncates.
OrBit(w, s, W) == (IF Bit(w, s) = 1 THEN w ELSE w + Pow2(s)) % Pow2(W)

\* w &= ~(BlockType{ 1 } << s)
AndNotBit(w, s, W) == (IF Bit(w, s) = 1 THEN w - Pow2(s) ELSE w) % Pow2(W)

\* w ^= BlockType{ 1 } << s
XorBit(w, s, W) == (IF Bit(w, s) = 1 THEN w - Pow2(s) ELSE w + Pow2(s)) % Pow2(W)

\* ~w
Not(w, W) == max_value(W) - w

\* the value a bool converts to
AsBit(value) == IF value THEN 1 ELSE 0

\* a & b on W-bit values
RECURSIVE BitAnd(_, _, _)
BitAnd(a, b, W) ==
    IF W = 0 THEN 0
    ELSE (a % 2) * (b % 2) + 2 * BitAnd(a \div 2, b \div 2, W - 1)

\* for (i = lo; i < hi; ++i) w |= BlockType{ 1 } << i;
RECURSIVE OrBits(_, _, _, _)
OrBits(w, lo, hi, W) ==
    IF lo >= hi THEN w ELSE OrBits(OrBit(w, lo, W), lo + 1, hi, W)

\* for (i = lo; i < hi; ++i) w &= ~(BlockType{ 1 } << i);
RECURSIVE AndNotBits(_, _, _, _)
AndNotBits(w, lo, hi, W) ==
    IF lo >= hi THEN w ELSE AndNotBits(AndNotBit(w, lo, W), lo + 1, hi, W)

\* for (i = lo; i < hi; ++i) w ^= BlockType{ 1 } << i;
RECURSIVE XorBits(_, _, _, _)
XorBits(w, lo, hi, W) ==
    IF lo >= hi THEN w ELSE XorBits(XorBit(w, lo, W), lo + 1, hi, W)

\* byte k of block w (little-endian object representation)
ByteOf(w, k) == (w \div Pow2(BitsPerByte * k)) % Pow2(BitsPerByte)

\* block w with byte k replaced by byte value c
WithByte(w, k, c) == w - ByteOf(w, k) * Pow2(BitsPerByte * k) + c * Pow2(BitsPerByte * k)

\* ::memset(data + dst, c, nbytes): the bytes of the array from block dst on are set
\* to (unsigned char)c; nbytes need not be a whole number of blocks.
RECURSIVE MemSetBlock(_, _, _, _, _)
MemSetBlock(w, k, from, to, c) ==
    \* bytes k .. SizeOf-1 of block w, whose byte k is byte number `from` of the run
    IF from >= to \/ k * BitsPerByte >= m_block_size THEN w
    ELSE MemSetBlock(WithByte(w, k, c), k + 1, from + 1, to, c)

memset(data, dst, c, nbytes) ==
    [j \in DOMAIN data |->
        IF j < dst THEN data[j]
        ELSE MemSetBlock(data[j], 0, (j - dst) * SizeOf(m_block_size), nbytes,
                         c % Pow2(BitsPerByte))]

\* calculate_storage_size(size)
calculate_storage_size(size, W) ==
    size \div (SizeOf(W) * 8) + (IF size % (SizeOf(W) * 8) # 0 THEN 1 ELSE 0)

----------------------------------------------------------------------------
(* Construction *)

\* Block values the constructors and set_block are called with: all clear, all set,
\* and a mixed pattern (0xA4 in every byte: bits 2, 5 and 7).
Blocks(W) == {0, max_value(W), 164 * (max_value(W) \div 255)}

NoCall == [name |-> "construct", index |-> 0, begin |-> 0, end |-> 0, step |-> 0,
           value |-> FALSE, block |-> 0]

Snapshot == [data |-> m_data, size |-> m_size, storage_size |-> m_storage_size]

\* CDynamicBitSet()
ConstructEmpty(W) ==
    /\ m_block_size = W
    /\ m_data = <<>>
    /\ m_null = TRUE
    /\ m_size = 0
    /\ m_storage_size = 0

\* CDynamicBitSet(size): new BlockType[calculate_storage_size(size)], then reset()
ConstructSize(W, size) ==
    /\ m_block_size = W
    /\ m_data = [j \in 0 .. calculate_storage_size(size, W) - 1 |-> 0]
    /\ m_null = FALSE
    /\ m_size = size
    /\ m_storage_size = calculate_storage_size(size, W)

\* CDynamicBitSet(size, block): fill_block(block)
ConstructSizeBlock(W, size, block) ==
    /\ m_block_size = W
    /\ m_data = [j \in 0 .. calculate_storage_size(size, W) - 1 |-> block]
    /\ m_null = FALSE
    /\ m_size = size
    /\ m_storage_size = calculate_storage_size(size, W)

\* CDynamicBitSet(size, list) with a list of calculate_storage_size(size) blocks:
\* std::copy(list.begin(), list.end(), m_data)
ConstructSizeList(W, size, list) ==
    /\ m_block_size = W
    /\ m_data = list
    /\ m_null = FALSE
    /\ m_size = size
    /\ m_storage_size = calculate_storage_size(size, W)

\* One object is followed, in m_data, m_size and m_storage_size: no other instance
\* exists and the array of the object is not given an identity.
OneInstance == objs = <<>> /\ heap = <<>>

\* No call is in progress: every call is followed as one step, from entry to return.
NoLoop == [running |-> FALSE, i |-> 0, passes |-> 0]

\* No CBitSet is run alongside the object.
NoFixed == <<>>

Init ==
    /\ \E W \in BlockWidths :
          \/ ConstructEmpty(W)
          \/ \E size \in 0 .. MaxSize :
                \/ ConstructSize(W, size)
                \/ \E block \in Blocks(W) : ConstructSizeBlock(W, size, block)
                \/ \E list \in [0 .. calculate_storage_size(size, W) - 1 -> Blocks(W)] :
                      ConstructSizeList(W, size, list)
    /\ fault = "none"
    /\ last = NoCall
    /\ pre = [data |-> m_data, size |-> m_size, storage_size |-> m_storage_size]
    /\ ncalls = 0
    /\ OneInstance
    /\ loop = NoLoop
    /\ fixed = NoFixed

----------------------------------------------------------------------------
(* Queries (const member functions) *)

\* test(index)
test(index) ==
    Bit(m_data[index \div m_block_size], m_block_size - (index % m_block_size)) # 0

\* operator[](index)
subscript(index) ==
    Bit(m_data[index \div m_block_size], m_block_size - (index % m_block_size)) # 0

\* all()
all ==
    LET whole == m_storage_size - (IF m_size % m_block_size # 0 THEN 1 ELSE 0)
    IN  /\ \A i \in 0 .. whole - 1 : m_data[i] = max_value(m_block_size)
        /\ m_size % m_block_size # 0 =>
              \A i \in 0 .. (m_size % m_block_size) - 1 :
                  Bit(m_data[m_size \div m_block_size], i) # 0

\* any()
any ==
    LET whole == m_storage_size - (IF m_size % m_block_size # 0 THEN 1 ELSE 0)
    IN  \/ \E i \in 0 .. whole - 1 : m_data[i] # 0
        \/ /\ m_size % m_block_size # 0
           /\ \E i \in 0 .. (m_size % m_block_size) - 1 :
                  Bit(m_data[m_size \div m_block_size], i) # 0

\* none()
none == \A i \in 0 .. m_storage_size - 1 : m_data[i] = 0

\* the inner loop of count(): while (j) { j &= j - 1; ++count; }
RECURSIVE CountBlock(_, _)
CountBlock(j, W) == IF j = 0 THEN 0 ELSE 1 + CountBlock(BitAnd(j, j - 1, W), W)

\* count()
RECURSIVE CountFrom(_)
CountFrom(i) ==
    IF i >= m_storage_size THEN 0 ELSE CountBlock(m_data[i], m_block_size) + CountFrom(i + 1)

count == CountFrom(0)

----------------------------------------------------------------------------
(* Mutating member functions, as functions of the array *)

\* set(index, value)
set(data, index, value) ==
    LET W == m_block_size
    IN  [data EXCEPT ![index \div W] =
            IF value THEN OrBit(@, W - (index % W), W) ELSE AndNotBit(@, W - (index % W), W)]

\* reset(index)
reset(data, index) ==
    LET W == m_block_size
    IN  [data EXCEPT ![index \div W] = AndNotBit(@, W - (index % W), W)]

\* flip(index)
flip(data, index) ==
    LET W == m_block_size
    IN  [data EXCEPT ![index \div W] = XorBit(@, W - (index % W), W)]

\* fill(value): ::memset(m_data, value ? max : 0, m_storage_size * sizeof(BlockType))
fill(data, value) ==
    memset(data, 0, IF value THEN max_value(m_block_size) ELSE 0,
           m_storage_size * SizeOf(m_block_size))

\* flip(): every block of the storage is complemented
flip_all(data) ==
    [j \in DOMAIN data |-> IF j < m_storage_size THEN Not(data[j], m_block_size) ELSE data[j]]

\* set_block(index, block)
set_block(data, index, block) == [data EXCEPT ![index] = block]

\* fill_block(block)
fill_block(data, block) ==
    [j \in DOMAIN data |-> IF j < m_storage_size THEN block ELSE data[j]]

\* Whether ::memset(data + dst, c, nbytes) leaves the allocation.  nbytes < 0 stands
\* for the size_t value 2^64 + nbytes the unsigned subtraction wraps to.
MemSetOverrun(data, dst, nbytes) ==
    \/ nbytes < 0
    \/ dst * SizeOf(m_block_size) + nbytes > Cardinality(DOMAIN data) * SizeOf(m_block_size)

\* What a memset that leaves the allocation does to the allocation itself.
MemSetToEnd(data, dst, c) ==
    memset(data, dst, c, (Cardinality(DOMAIN data) - dst) * SizeOf(m_block_size))

\* reset(): ::memset(m_data, 0, m_storage_size * sizeof(BlockType))
reset_all(data) == memset(data, 0, 0, m_storage_size * SizeOf(m_block_size))

\* set(): ::memset(m_data, max, m_storage_size * sizeof(BlockType))
set_all(data) ==
    memset(data, 0, max_value(m_block_size), m_storage_size * SizeOf(m_block_size))

\* to_add of fill_in_range and reset_in_range: 1 when begin is not word-aligned.
ToAdd(begin) == IF begin % m_block_size # 0 THEN 1 ELSE 0

\* to_sub of fill_in_range and reset_in_range: 1 when end is not word-aligned and
\* lies in another word than begin.
ToSub(begin, end) ==
    IF end % m_block_size # 0 /\ begin \div m_block_size # end \div m_block_size
    THEN 1 ELSE 0

\* The first word and the length, in bytes, the ::memset of fill_in_range and
\* reset_in_range is called with: m_data + begin / m_block_size + to_add and
\* (end - begin) / m_block_size * sizeof(BlockType) - to_sub.  A negative length n
\* stands for the size_t value 2^64 + n.
memset_first(begin) == begin \div m_block_size + ToAdd(begin)

memset_length(begin, end) ==
    ((end - begin) \div m_block_size) * SizeOf(m_block_size) - ToSub(begin, end)

\* fill_in_range(begin, end, value)
fill_in_range(data, begin, end, value) ==
    LET W == m_block_size
        head == begin % W # 0
        end_bit == IF begin \div W = end \div W THEN end % W ELSE W
        d1 == IF head
              THEN [data EXCEPT ![begin \div W] =
                       IF value THEN OrBits(@, begin % W, end_bit, W)
                                ELSE AndNotBits(@, begin % W, end_bit, W)]
              ELSE data
        to_add == IF head THEN 1 ELSE 0
        tail == end % W # 0 /\ begin \div W # end \div W
        d2 == IF tail
              THEN [d1 EXCEPT ![end \div W] =
                       IF value THEN OrBits(@, 0, end % W, W)
                                ELSE AndNotBits(@, 0, end % W, W)]
              ELSE d1
        to_sub == IF tail THEN 1 ELSE 0
        dst == begin \div W + to_add
        c == IF value THEN max_value(W) ELSE 0
        nbytes == ((end - begin) \div W) * SizeOf(W) - to_sub
    IN  IF MemSetOverrun(d2, dst, nbytes)
        THEN [data |-> MemSetToEnd(d2, dst, c), fault |-> "memset overrun"]
        ELSE [data |-> memset(d2, dst, c, nbytes), fault |-> "none"]

\* reset_in_range(begin, end)
reset_in_range(data, begin, end) ==
    LET W == m_block_size
        head == begin % W # 0
        end_bit == IF begin \div W = end \div W THEN end % W ELSE W
        d1 == IF head
              THEN [data EXCEPT ![begin \div W] = AndNotBits(@, begin % W, end_bit, W)]
              ELSE data
        to_add == IF head THEN 1 ELSE 0
        tail == end % W # 0 /\ begin \div W # end \div W
        d2 == IF tail
              THEN [d1 EXCEPT ![end \div W] = AndNotBits(@, 0, end % W, W)]
              ELSE d1
        to_sub == IF tail THEN 1 ELSE 0
        dst == begin \div W + to_add
        nbytes == ((end - begin) \div W) * SizeOf(W) - to_sub
    IN  IF MemSetOverrun(d2, dst, nbytes)
        THEN [data |-> MemSetToEnd(d2, dst, 0), fault |-> "memset overrun"]
        ELSE [data |-> memset(d2, dst, 0, nbytes), fault |-> "none"]

\* fill_in_range(begin, end, step, value) with the loop running while i <= end, so
\* that a stride landing on end writes the bit at end.
RECURSIVE fill_in_range_step_inclusive(_, _, _, _, _)
fill_in_range_step_inclusive(data, i, end, step, value) ==
    LET W == m_block_size
    IN  IF i > end \/ i \div W \notin DOMAIN data THEN data
        ELSE fill_in_range_step_inclusive(
                 [data EXCEPT ![i \div W] =
                     IF value THEN OrBit(@, i % W, W) ELSE AndNotBit(@, i % W, W)],
                 i + step, end, step, value)

\* fill_in_range(begin, end, step, value): for (i = begin; i < end; i += step)
RECURSIVE fill_in_range_step(_, _, _, _, _)
fill_in_range_step(data, i, end, step, value) ==
    LET W == m_block_size
    IN  IF i >= end THEN data
        ELSE fill_in_range_step(
                 [data EXCEPT ![i \div W] =
                     IF value THEN OrBit(@, i % W, W) ELSE AndNotBit(@, i % W, W)],
                 i + step, end, step, value)

\* reset_in_range(begin, end, step): for (i = begin; i < end; i += step)
RECURSIVE reset_in_range_step(_, _, _, _)
reset_in_range_step(data, i, end, step) ==
    LET W == m_block_size
    IN  IF i >= end THEN data
        ELSE reset_in_range_step([data EXCEPT ![i \div W] = AndNotBit(@, i % W, W)],
                                 i + step, end, step)

\* flip_in_range(begin, end) with the head word's bits set (|=) instead of toggled.
flip_in_range_head_or(data, begin, end) ==
    LET W == m_block_size
        head == begin % W # 0
        d1 == IF head
              THEN [data EXCEPT ![begin \div W] = OrBits(@, begin % W, W, W)]
              ELSE data
        to_add == IF head THEN 1 ELSE 0
        d2 == [j \in DOMAIN d1 |->
                  IF j >= begin \div W + to_add /\ j < end \div W
                  THEN Not(d1[j], W) ELSE d1[j]]
    IN  IF end % W # 0
        THEN [d2 EXCEPT ![end \div W] = XorBits(@, 0, end % W, W)]
        ELSE d2

\* flip_in_range(begin, end)
flip_in_range(data, begin, end) ==
    LET W == m_block_size
        head == begin % W # 0
        d1 == IF head
              THEN [data EXCEPT ![begin \div W] = XorBits(@, begin % W, W, W)]
              ELSE data
        to_add == IF head THEN 1 ELSE 0
        d2 == [j \in DOMAIN d1 |->
                  IF j >= begin \div W + to_add /\ j < end \div W
                  THEN Not(d1[j], W) ELSE d1[j]]
    IN  IF end % W # 0
        THEN [d2 EXCEPT ![end \div W] = XorBits(@, 0, end % W, W)]
        ELSE d2

\* flip_in_range(begin, end, step): for (i = begin; i < end; i += step)
RECURSIVE flip_in_range_step(_, _, _, _)
flip_in_range_step(data, i, end, step) ==
    LET W == m_block_size
    IN  IF i >= end THEN data
        ELSE flip_in_range_step([data EXCEPT ![i \div W] = XorBit(@, i % W, W)],
                                i + step, end, step)

----------------------------------------------------------------------------
(* The pattern fill: fill_in_range_optimized and fill_in_range_fastest *)

\* a | b on W-bit values
BitOr(a, b, W) == a + b - BitAnd(a, b, W)

\* while (b) { t = b; b = a % b; a = t; }
RECURSIVE GCD(_, _)
GCD(a, b) == IF b = 0 THEN a ELSE GCD(b, a % b)

\* blocks_size of fill_in_range_optimized, for step >= 1
blocks_size(step) ==
    LET W == m_block_size
    IN  IF (step % 2 # 0 \/ step <= W) /\ W % step # 0
        THEN (IF m_storage_size < step THEN m_storage_size ELSE step)
        ELSE IF W % step = 0 THEN 1
        ELSE IF step % W = 0 THEN step \div W
        ELSE GCD(step, W)

\* offset of fill_in_range_optimized, for step >= 1
pattern_offset(begin, step) ==
    LET W == m_block_size
        first == IF begin < W
                 THEN (IF (W - begin) % step # 0 THEN step - ((W - begin) % step) ELSE 0)
                 ELSE (begin - W) % step
    IN  IF first # 0 THEN (W - first + (step \div W) * W) % step ELSE 0

\* for (i = lo; i < hi; i += step) w |= BlockType{ 1 } << i   (or w &= ~(...))
RECURSIVE StrideBits(_, _, _, _, _)
StrideBits(w, lo, hi, step, value) ==
    IF lo >= hi THEN w
    ELSE StrideBits(IF value THEN OrBit(w, lo, m_block_size)
                    ELSE AndNotBit(w, lo, m_block_size),
                    lo + step, hi, step, value)

\* "Create and apply the beginning block" of fill_in_range_optimized
begin_block(data, begin, end, step, value) ==
    LET W == m_block_size
        end_bit == IF begin \div W = end \div W THEN end % W ELSE W
    IN  IF begin % W < end_bit
        THEN [data EXCEPT ![begin \div W] = StrideBits(@, begin % W, end_bit, step, value)]
        ELSE data

\* "Generate block for the current iteration": bit j, from bit `from` on, is set (or
\* cleared, for value false) when (current_block * m_block_size + j - offset) % step
\* is 0; base is current_block * m_block_size - offset.
RECURSIVE pattern_block(_, _, _, _, _)
pattern_block(block, from, base, step, value) ==
    IF from >= m_block_size THEN block
    ELSE pattern_block(
             IF (base + from) % step # 0 THEN block
             ELSE IF value THEN OrBit(block, from, m_block_size)
             ELSE AndNotBit(block, from, m_block_size),
             from + 1, base, step, value)

\* "Apply the block": for (j = current_block; j < m_storage_size; ++j), with the
\* block cut at end % m_block_size, and the loop left, at word end_block - 1 when end
\* is not word-aligned.
apply_block(data, block, current_block, end, value) ==
    LET W == m_block_size
        end_block == end \div W + (IF end % W # 0 THEN 1 ELSE 0)
        cut == end % W # 0 /\ current_block <= end_block - 1
                           /\ end_block - 1 < m_storage_size
        masked == IF value THEN AndNotBits(block, end % W, W, W)
                  ELSE OrBits(block, end % W, W, W)
    IN  [j \in DOMAIN data |->
            IF j < current_block \/ j >= m_storage_size \/ (cut /\ j > end_block - 1)
            THEN data[j]
            ELSE IF cut /\ j = end_block - 1
                 THEN (IF value THEN BitOr(data[j], masked, W)
                       ELSE BitAnd(data[j], masked, W))
                 ELSE (IF value THEN BitOr(data[j], block, W)
                       ELSE BitAnd(data[j], block, W))]

\* "Fill with appropriate block": for (i = 0; i < min(blocks_size, m_storage_size); ++i)
RECURSIVE pattern_loop(_, _, _, _, _, _, _, _)
pattern_loop(data, i, n, current_block, offset, end, step, value) ==
    IF i >= n THEN data
    ELSE pattern_loop(
             apply_block(data,
                         pattern_block(IF value THEN 0 ELSE max_value(m_block_size),
                                       IF i = 0 THEN offset ELSE 0,
                                       current_block * m_block_size - offset, step, value),
                         current_block, end, value),
             i + 1, n, current_block + 1, offset, end, step, value)

\* fill_in_range_optimized(begin, end, step, value).  With step = 0 the first
\* condition evaluates m_block_size % step, a division by zero.
fill_in_range_optimized(data, begin, end, step, value) ==
    IF step = 0 THEN [data |-> data, fault |-> "division by zero"]
    ELSE LET n == IF blocks_size(step) < m_storage_size
                  THEN blocks_size(step) ELSE m_storage_size
         IN  [data |-> pattern_loop(begin_block(data, begin, end, step, value), 0, n,
                                    begin \div m_block_size + 1 + step \div m_block_size,
                                    pattern_offset(begin, step), end, step, value),
              fault |-> "none"]

\* fill_in_range_fastest(begin, end, step, value).  The calls it makes pass
\* (value, begin, end, step) to functions declared with (begin, end, step, value):
\* the callee's begin is value converted to 0 or 1, its end is begin, its step is
\* end and its value is step != 0.  The strided loop it runs with a step of 0 over a
\* non-empty range writes its first bit again and again and does not return.
fill_in_range_fastest(data, begin, end, step, value) ==
    IF step = 1 THEN fill_in_range(data, begin, end, value)
    ELSE IF 2 * step <= 5 * m_block_size
         THEN fill_in_range_optimized(data, AsBit(value), begin, end, step # 0)
         ELSE IF end = 0 /\ AsBit(value) < begin
              THEN [data |-> fill_in_range_step(data, AsBit(value), AsBit(value) + 1, 1,
                                                step # 0),
                    fault |-> "no return"]
              ELSE [data |-> fill_in_range_step(data, AsBit(value), begin, end, step # 0),
                    fault |-> "none"]

----------------------------------------------------------------------------
(* Growth and shrinking, as functions of the object *)

\* The members of an object, as a member function sees them through this.
Object(data, null, size, storage_size) ==
    [data |-> data, null |-> null, size |-> size, storage_size |-> storage_size]

\* What a call leaves: the members, the fault it ran into, and whether m_data now
\* points to an array the call allocated (the one it pointed to being delete[]d).
Result(data, null, size, storage_size, flt, realloc) ==
    [data |-> data, null |-> null, size |-> size, storage_size |-> storage_size,
     fault |-> flt, realloc |-> realloc]

\* The object the call is made on.
This == Object(m_data, m_null, m_size, m_storage_size)

\* A call that returns without touching the object.
Untouched(o) == Result(o.data, o.null, o.size, o.storage_size, "none", FALSE)

\* Number of blocks of the array m_data points to.
Allocated(o) == Cardinality(DOMAIN o.data)

\* new BlockType[n] followed by std::copy(m_data, m_data + len, new_data), the copy
\* being made only if (m_data).  Blocks of the new array the copy does not reach are
\* uninitialized: junk gives the indeterminate value each of them holds.
NewCopy(o, len, n, junk) ==
    [j \in 0 .. n - 1 |->
        IF ~o.null /\ j < len /\ j \in DOMAIN o.data THEN o.data[j] ELSE junk[j]]

\* What that copy runs into: it writes past the new array when len > n, and reads
\* past the old one when len exceeds its length.
CopyFault(o, len, n) ==
    IF o.null THEN "none"
    ELSE IF len > n THEN "copy overrun"
    ELSE IF len > Allocated(o) THEN "copy overread"
    ELSE "none"

\* The indices NewCopy(o, len, n, junk) leaves uninitialized.
Uninitialized(o, len, n) ==
    {j \in 0 .. n - 1 : o.null \/ j >= len \/ j \notin DOMAIN o.data}

\* a < b on uint64_t, a negative number n standing for 2^64 + n
Less(a, b) == IF (a < 0) = (b < 0) THEN a < b ELSE b < 0

\* push_back(value)
push_back(o, value) ==
    LET W == m_block_size
        word == o.size \div W
    IN  IF o.size % W # 0
        THEN IF word \notin DOMAIN o.data
             THEN Result(o.data, o.null, o.size, o.storage_size, "wild write", FALSE)
             ELSE Result([o.data EXCEPT ![word] =
                             IF value THEN OrBit(@, o.size % W, W)
                                      ELSE AndNotBit(@, o.size % W, W)],
                         o.null, o.size + 1, o.storage_size, "none", FALSE)
        ELSE LET n == o.storage_size + 1
                 junk == [j \in 0 .. n - 1 |-> 0]
                 copied == NewCopy(o, o.storage_size, n, junk)
             IN  Result([copied EXCEPT ![o.storage_size] = AsBit(value)],
                        FALSE, o.size + 1, o.storage_size + 1,
                        CopyFault(o, o.storage_size, n), TRUE)

\* pop_back().  new BlockType[m_storage_size - 1] with m_storage_size = 0 asks for
\* 2^64 - 1 blocks and throws in a noexcept function: std::terminate.  Otherwise
\* std::copy of m_storage_size blocks into the new array of m_storage_size - 1 blocks
\* writes one block past its end.
pop_back(o) ==
    IF o.null THEN Untouched(o)
    ELSE IF o.size % m_block_size = 0
         THEN IF o.storage_size = 0
              THEN Result(o.data, o.null, o.size, o.storage_size, "terminate", FALSE)
              ELSE Result([j \in 0 .. o.storage_size - 2 |->
                              IF j \in DOMAIN o.data THEN o.data[j] ELSE 0], FALSE,
                          o.size - 1, o.storage_size, "copy overrun", TRUE)
         ELSE Result(o.data, o.null, o.size - 1, o.storage_size, "none", FALSE)

\* push_back_block(block): the block at m_storage_size is written right after the
\* copy; junk gives the value of every block that stays uninitialized.
push_back_block(o, block, junk) ==
    LET W == m_block_size
        n == o.storage_size + (IF o.size % W # 0 THEN 2 ELSE 1)
        copied == NewCopy(o, o.storage_size, n,
                          [j \in 0 .. n - 1 |-> IF j \in DOMAIN junk THEN junk[j] ELSE block])
    IN  Result([copied EXCEPT ![o.storage_size] = block], FALSE,
               o.size + W + (IF o.size % W # 0 THEN W - (o.size % W) ELSE 0),
               o.storage_size + 1, CopyFault(o, o.storage_size, n), TRUE)

\* pop_back_block().  As in pop_back, new BlockType[m_storage_size - 1] with
\* m_storage_size = 0 ends in std::terminate.  m_size -= m_block_size wraps below 0.
pop_back_block(o) ==
    LET W == m_block_size
        size == IF o.size % W # 0 THEN (o.storage_size - 1) * W ELSE o.size
        n == o.storage_size - 1
    IN  IF o.null THEN Untouched(o)
        ELSE IF o.storage_size = 0
             THEN Result(o.data, o.null, size, o.storage_size, "terminate", FALSE)
             ELSE Result(NewCopy(o, n, n, [j \in 0 .. n - 1 |-> 0]), FALSE, size - W, n,
                         CopyFault(o, n, n), TRUE)

\* resize(new_size)
resize(o, new_size, junk) ==
    LET W == m_block_size
        new_storage_size == calculate_storage_size(new_size, W)
    IN  IF new_size = o.size THEN Untouched(o)
        ELSE IF Less(new_size, o.size)
             THEN Result(o.data, o.null, new_size, calculate_storage_size(new_size, W),
                         "none", FALSE)
             ELSE Result(NewCopy(o, o.storage_size, new_storage_size, junk), FALSE,
                         new_size, new_storage_size,
                         CopyFault(o, o.storage_size, new_storage_size), TRUE)

----------------------------------------------------------------------------
(* Calls *)

Call(name, index, begin, end, step, value, block) ==
    [name |-> name, index |-> index, begin |-> begin, end |-> end, step |-> step,
     value |-> value, block |-> block]

\* The behaviours explored are a construction followed by one call: every per-call
\* contract is a relation between the object before the call, the arguments and the
\* object after it, and the constructors supply the objects before the call.
CanCall == fault = "none" /\ ncalls = 0

\* The call returns (or faults) having changed the array only.
Returns(call, data, flt) ==
    /\ m_data' = data
    /\ fault' = flt
    /\ last' = call
    /\ pre' = Snapshot
    /\ ncalls' = ncalls + 1
    /\ UNCHANGED <<m_block_size, m_null, m_size, m_storage_size, objs, heap, loop, fixed>>

Set ==
    /\ CanCall
    /\ \E index \in 0 .. m_size - 1, value \in BOOLEAN :
          Returns(Call("set", index, 0, 0, 0, value, 0), set(m_data, index, value), "none")

Reset ==
    /\ CanCall
    /\ \E index \in 0 .. m_size - 1 :
          Returns(Call("reset", index, 0, 0, 0, FALSE, 0), reset(m_data, index), "none")

Flip ==
    /\ CanCall
    /\ \E index \in 0 .. m_size - 1 :
          Returns(Call("flip", index, 0, 0, 0, FALSE, 0), flip(m_data, index), "none")

Fill ==
    /\ CanCall
    /\ \E value \in BOOLEAN :
          Returns(Call("fill", 0, 0, 0, 0, value, 0), fill(m_data, value), "none")

ResetAll ==
    /\ CanCall
    /\ Returns(Call("reset_all", 0, 0, 0, 0, FALSE, 0), reset_all(m_data), "none")

SetAll ==
    /\ CanCall
    /\ Returns(Call("set_all", 0, 0, 0, 0, TRUE, 0), set_all(m_data), "none")

FlipAll ==
    /\ CanCall
    /\ Returns(Call("flip_all", 0, 0, 0, 0, FALSE, 0), flip_all(m_data), "none")

SetBlock ==
    /\ CanCall
    /\ \E index \in 0 .. m_storage_size - 1, block \in Blocks(m_block_size) :
          Returns(Call("set_block", index, 0, 0, 0, FALSE, block),
                  set_block(m_data, index, block), "none")

FillBlock ==
    /\ CanCall
    /\ \E block \in Blocks(m_block_size) :
          Returns(Call("fill_block", 0, 0, 0, 0, FALSE, block),
                  fill_block(m_data, block), "none")

FillInRange ==
    /\ CanCall
    /\ \E end \in 0 .. m_size, value \in BOOLEAN : \E begin \in 0 .. end :
          LET r == fill_in_range(m_data, begin, end, value)
          IN  Returns(Call("fill_in_range", 0, begin, end, 1, value, 0), r.data, r.fault)

ResetInRange ==
    /\ CanCall
    /\ \E end \in 0 .. m_size : \E begin \in 0 .. end :
          LET r == reset_in_range(m_data, begin, end)
          IN  Returns(Call("reset_in_range", 0, begin, end, 1, FALSE, 0), r.data, r.fault)

FillInRangeStep ==
    /\ CanCall
    /\ \E end \in 0 .. m_size, step \in 1 .. MaxStep, value \in BOOLEAN :
          \E begin \in 0 .. end :
             Returns(Call("fill_in_range_step", 0, begin, end, step, value, 0),
                     fill_in_range_step(m_data, begin, end, step, value), "none")

ResetInRangeStep ==
    /\ CanCall
    /\ \E end \in 0 .. m_size, step \in 1 .. MaxStep : \E begin \in 0 .. end :
          Returns(Call("reset_in_range_step", 0, begin, end, step, FALSE, 0),
                  reset_in_range_step(m_data, begin, end, step), "none")

FlipInRange ==
    /\ CanCall
    /\ \E end \in 0 .. m_size : \E begin \in 0 .. end :
          Returns(Call("flip_in_range", 0, begin, end, 1, FALSE, 0),
                  flip_in_range(m_data, begin, end), "none")

FlipInRangeStep ==
    /\ CanCall
    /\ \E end \in 0 .. m_size, step \in 1 .. MaxStep : \E begin \in 0 .. end :
          Returns(Call("flip_in_range_step", 0, begin, end, step, FALSE, 0),
                  flip_in_range_step(m_data, begin, end, step), "none")

\* pop_back().  A negative m_size n stands for the uint64_t value 2^64 + n.
PopBack ==
    /\ CanCall
    /\ LET r == pop_back(This)
       IN  /\ m_data' = r.data
           /\ m_null' = r.null
           /\ m_size' = r.size
           /\ m_storage_size' = r.storage_size
           /\ fault' = r.fault
    /\ last' = Call("pop_back", 0, 0, 0, 0, FALSE, 0)
    /\ pre' = Snapshot
    /\ ncalls' = ncalls + 1
    /\ UNCHANGED <<m_block_size, objs, heap, loop, fixed>>

Next ==
    \/ Set
    \/ Reset
    \/ Flip
    \/ Fill
    \/ ResetAll
    \/ SetAll
    \/ FlipAll
    \/ SetBlock
    \/ FillBlock
    \/ FillInRange
    \/ ResetInRange
    \/ FillInRangeStep
    \/ ResetInRangeStep
    \/ FlipInRange
    \/ FlipInRangeStep
    \/ PopBack

Spec == Init /\ [][Next]_vars

----------------------------------------------------------------------------
(* Sequences of growing and shrinking calls *)

\* Sizes the objects of the growth behaviours are constructed with and resized to:
\* empty, one bit, and the sizes around the first and at the second word boundary.
GrowSizes(W) == {0, 1, W - 1, W, W + 1, 2 * W}

\* The object before the call, and what was recorded before the call before it.
History ==
    [data |-> m_data, size |-> m_size, storage_size |-> m_storage_size,
     last |-> last, pre |-> pre]

\* A further call is made while no call has run into a fault.
CanGrow == fault = "none" /\ ncalls < MaxCalls

\* The call leaves the object as r says.
Grows(call, r) ==
    /\ m_data' = r.data
    /\ m_null' = r.null
    /\ m_size' = r.size
    /\ m_storage_size' = r.storage_size
    /\ fault' = r.fault
    /\ last' = call
    /\ pre' = History
    /\ ncalls' = ncalls + 1
    /\ UNCHANGED <<m_block_size, objs, heap, loop, fixed>>

PushBack ==
    /\ CanGrow
    /\ \E value \in BOOLEAN :
          Grows(Call("push_back", 0, 0, 0, 0, value, 0), push_back(This, value))

PopBackAgain ==
    /\ CanGrow
    /\ Grows(Call("pop_back", 0, 0, 0, 0, FALSE, 0), pop_back(This))

PushBackBlock ==
    /\ CanGrow
    /\ \E block \in Blocks(m_block_size) :
          LET n == m_storage_size + (IF m_size % m_block_size # 0 THEN 2 ELSE 1)
          IN  \E junk \in [Uninitialized(This, m_storage_size, n) \ {m_storage_size}
                               -> Blocks(m_block_size)] :
                 Grows(Call("push_back_block", 0, 0, 0, 0, FALSE, block),
                       push_back_block(This, block, junk))

PopBackBlock ==
    /\ CanGrow
    /\ Grows(Call("pop_back_block", 0, 0, 0, 0, FALSE, 0), pop_back_block(This))

\* resize(new_size); the call record keeps new_size in its index field.
Resize ==
    /\ CanGrow
    /\ \E new_size \in GrowSizes(m_block_size) :
          LET n == IF Less(m_size, new_size)
                   THEN calculate_storage_size(new_size, m_block_size) ELSE 0
          IN  \E junk \in [Uninitialized(This, m_storage_size, n) -> Blocks(m_block_size)] :
                 Grows(Call("resize", new_size, 0, 0, 0, FALSE, 0),
                       resize(This, new_size, junk))

\* Block values a list constructor is called with: those of Blocks and 0xF0 in
\* every byte (bits 4 to 7).
ListBlocks(W) == Blocks(W) \cup {240 * (max_value(W) \div 255)}

\* The lists of up to MaxList blocks, as arrays indexed from 0.
Lists(W) == UNION {[0 .. n - 1 -> ListBlocks(W)] : n \in 0 .. MaxList}

\* CDynamicBitSet(list): new BlockType[calculate_storage_size(list.size())], then
\* std::copy(list.begin(), list.end(), m_data).  m_size is initialized from
\* list.m_size(), which std::initializer_list does not have, so the constructor cannot
\* be instantiated as written; it is read as list.size(), which is what the second
\* copy of the class in the same file has.  The copy writes list.size() blocks into
\* the calculate_storage_size(list.size()) the array holds.
ConstructList(W, list) ==
    LET n == Cardinality(DOMAIN list)
    IN  /\ m_block_size = W
        /\ m_data = [j \in 0 .. calculate_storage_size(n, W) - 1 |-> list[j]]
        /\ m_null = FALSE
        /\ m_size = n
        /\ m_storage_size = calculate_storage_size(n, W)
        /\ fault = IF n > calculate_storage_size(n, W) THEN "copy overrun" ELSE "none"
        /\ last = Call("construct_list", 0, 0, 0, 0, FALSE, list)

GrowInit ==
    /\ \E W \in BlockWidths :
          \/ /\ \/ ConstructEmpty(W)
                \/ \E size \in GrowSizes(W) :
                      \/ ConstructSize(W, size)
                      \/ \E block \in Blocks(W) : ConstructSizeBlock(W, size, block)
             /\ fault = "none"
             /\ last = NoCall
          \/ \E list \in Lists(W) : ConstructList(W, list)
    /\ pre = [data |-> m_data, size |-> m_size, storage_size |-> m_storage_size]
    /\ ncalls = 0
    /\ OneInstance
    /\ loop = NoLoop
    /\ fixed = NoFixed

GrowNext ==
    \/ PushBack
    \/ PopBackAgain
    \/ PushBackBlock
    \/ PopBackBlock
    \/ Resize

SpecGrow == GrowInit /\ [][GrowNext]_vars

----------------------------------------------------------------------------
(* Copying and moving between instances *)

\* The instances followed.  objs[x] holds the members of instance x: ptr is the value
\* of m_data, 0 for nullptr and otherwise the index in heap of the array it points
\* to; live tells whether x has been constructed and not yet destroyed.
Instances == {"a", "b", "c"}

\* Sizes the instances are constructed with and resized to.
CopySizes(W) == {0, 1, W}

Instance(ptr, size, storage_size, live) ==
    [ptr |-> ptr, size |-> size, storage_size |-> storage_size, live |-> live]

\* An instance that is not constructed, and the members of a moved-from one.
NoInstance == Instance(0, 0, 0, FALSE)

\* The array m_data of instance x points to.
Words(x) == IF objs[x].ptr = 0 THEN <<>> ELSE heap[objs[x].ptr].words

\* Instance x as its member functions see it.
ObjectOf(x) == Object(Words(x), objs[x].ptr = 0, objs[x].size, objs[x].storage_size)

\* delete[] ptr
Delete(h, ptr) == IF ptr = 0 THEN h ELSE [h EXCEPT ![ptr].freed = @ + 1]

\* CDynamicBitSet(const CDynamicBitSet& other)
copy_constructor(other) ==
    LET n == other.storage_size
    IN  Result(NewCopy(other, n, n, [j \in 0 .. n - 1 |-> 0]), FALSE, other.size, n,
               CopyFault(other, n, n), TRUE)

\* operator=(const CDynamicBitSet& other); self is this == &other.  The array is
\* replaced only if the sizes differ; std::copy then writes other.m_storage_size
\* blocks to m_data, whatever m_data can hold.
copy_assignment(this, other, self) ==
    LET realloc == this.size # other.size
        n == IF realloc THEN other.storage_size ELSE Allocated(this)
        len == other.storage_size
    IN  IF self THEN Untouched(this)
        ELSE Result([j \in 0 .. n - 1 |->
                        IF j < len /\ j \in DOMAIN other.data THEN other.data[j]
                        ELSE IF realloc THEN 0 ELSE this.data[j]],
                    IF realloc THEN FALSE ELSE this.null,
                    IF realloc THEN other.size ELSE this.size,
                    IF realloc THEN other.storage_size ELSE this.storage_size,
                    IF len > n THEN "copy overrun"
                    ELSE IF len > Allocated(other) THEN "copy overread"
                    ELSE "none",
                    realloc)

\* CDynamicBitSet(CDynamicBitSet&& other): the members of the new instance and those
\* left in other.
move_constructor(other) ==
    [this |-> Instance(other.ptr, other.size, other.storage_size, TRUE),
     other |-> Instance(0, 0, 0, TRUE),
     deleted |-> 0]

\* operator=(CDynamicBitSet&& other) without the test this != &other.
move_assignment_unguarded(this, other, self) ==
    [this |-> IF self THEN Instance(0, 0, 0, TRUE)
              ELSE Instance(other.ptr, other.size, other.storage_size, TRUE),
     other |-> Instance(0, 0, 0, TRUE),
     deleted |-> this.ptr]

\* operator=(CDynamicBitSet&& other); self is this == &other.  deleted is the pointer
\* given to delete[].
move_assignment(this, other, self) ==
    IF self THEN [this |-> this, other |-> other, deleted |-> 0]
    ELSE [this |-> Instance(other.ptr, other.size, other.storage_size, TRUE),
          other |-> Instance(0, 0, 0, TRUE),
          deleted |-> this.ptr]

InstanceCall(name, this, other) == [name |-> name, this |-> this, other |-> other]

\* A further call is made while no call has run into a fault.
CanCopy == fault = "none" /\ ncalls < MaxCopyCalls

\* The bookkeeping of a call on the instances; the single-object variables are not
\* used by these behaviours.
Called(call, flt) ==
    /\ fault' = flt
    /\ last' = call
    /\ pre' = [objs |-> objs, heap |-> heap]
    /\ ncalls' = ncalls + 1
    /\ UNCHANGED <<m_block_size, m_data, m_null, m_size, m_storage_size, loop, fixed>>

\* Instance x is left as r says: an array the call allocated gets the next index of
\* heap, the array x pointed to having been given to delete[].
Install(x, r) ==
    IF r.realloc
    THEN /\ heap' = Append(Delete(heap, objs[x].ptr), [words |-> r.data, freed |-> 0])
         /\ objs' = [objs EXCEPT ![x] =
                        Instance(Len(heap) + 1, r.size, r.storage_size, TRUE)]
    ELSE /\ heap' = IF objs[x].ptr = 0 THEN heap
                    ELSE [heap EXCEPT ![objs[x].ptr].words = r.data]
         /\ objs' = [objs EXCEPT ![x] =
                        Instance(objs[x].ptr, r.size, r.storage_size, TRUE)]

Live == {x \in Instances : objs[x].live}

CopyConstruct ==
    /\ CanCopy
    /\ \E x \in Instances \ Live, y \in Live :
          LET r == copy_constructor(ObjectOf(y))
          IN  /\ Install(x, r)
              /\ Called(InstanceCall("copy_constructor", x, y), r.fault)

MoveConstruct ==
    /\ CanCopy
    /\ \E x \in Instances \ Live, y \in Live :
          LET r == move_constructor(objs[y])
          IN  /\ objs' = [objs EXCEPT ![x] = r.this, ![y] = r.other]
              /\ heap' = heap
              /\ Called(InstanceCall("move_constructor", x, y), "none")

CopyAssign ==
    /\ CanCopy
    /\ \E x \in Live, y \in Live :
          LET r == copy_assignment(ObjectOf(x), ObjectOf(y), x = y)
          IN  /\ Install(x, r)
              /\ Called(InstanceCall("copy_assignment", x, y), r.fault)

MoveAssign ==
    /\ CanCopy
    /\ \E x \in Live, y \in Live :
          LET r == move_assignment(objs[x], objs[y], x = y)
          IN  /\ objs' = [objs EXCEPT ![y] = r.other, ![x] = r.this]
              /\ heap' = Delete(heap, r.deleted)
              /\ Called(InstanceCall("move_assignment", x, y), "none")

\* ~CDynamicBitSet(): delete[] m_data
Destroy ==
    /\ CanCopy
    /\ \E x \in Live :
          /\ heap' = Delete(heap, objs[x].ptr)
          /\ objs' = [objs EXCEPT ![x] = NoInstance]
          /\ Called(InstanceCall("destructor", x, x), "none")

PushBackOn ==
    /\ CanCopy
    /\ \E x \in Live, value \in BOOLEAN :
          LET r == push_back(ObjectOf(x), value)
          IN  Install(x, r) /\ Called(InstanceCall("push_back", x, x), r.fault)

PopBackOn ==
    /\ CanCopy
    /\ \E x \in Live :
          LET r == pop_back(ObjectOf(x))
          IN  Install(x, r) /\ Called(InstanceCall("pop_back", x, x), r.fault)

PushBackBlockOn ==
    /\ CanCopy
    /\ \E x \in Live, block \in Blocks(m_block_size) :
          LET o == ObjectOf(x)
              n == o.storage_size + (IF o.size % m_block_size # 0 THEN 2 ELSE 1)
          IN  \E junk \in [Uninitialized(o, o.storage_size, n) \ {o.storage_size}
                               -> Blocks(m_block_size)] :
                 LET r == push_back_block(o, block, junk)
                 IN  Install(x, r) /\ Called(InstanceCall("push_back_block", x, x), r.fault)

PopBackBlockOn ==
    /\ CanCopy
    /\ \E x \in Live :
          LET r == pop_back_block(ObjectOf(x))
          IN  Install(x, r) /\ Called(InstanceCall("pop_back_block", x, x), r.fault)

ResizeOn ==
    /\ CanCopy
    /\ \E x \in Live, new_size \in CopySizes(m_block_size) :
          LET o == ObjectOf(x)
              n == IF Less(o.size, new_size)
                   THEN calculate_storage_size(new_size, m_block_size) ELSE 0
          IN  \E junk \in [Uninitialized(o, o.storage_size, n) -> Blocks(m_block_size)] :
                 LET r == resize(o, new_size, junk)
                 IN  Install(x, r) /\ Called(InstanceCall("resize", x, x), r.fault)

\* The objects instances a and b are constructed as: CDynamicBitSet(), or
\* CDynamicBitSet(size, block).
Constructed(W) ==
    {[null |-> TRUE, size |-> 0, block |-> 0]} \cup
    {[null |-> FALSE, size |-> size, block |-> block] :
        size \in CopySizes(W), block \in Blocks(W) \ {0}}

\* The array a constructor allocates and fills.
ConstructedWords(W, c) ==
    [words |-> [j \in 0 .. calculate_storage_size(c.size, W) - 1 |-> c.block],
     freed |-> 0]

\* Instances a and b are constructed, c is not.
CopyInit ==
    /\ \E W \in BlockWidths :
          /\ ConstructEmpty(W)
          /\ \E ca \in Constructed(W), cb \in Constructed(W) :
                LET ha == IF ca.null THEN <<>> ELSE <<ConstructedWords(W, ca)>>
                    hb == IF cb.null THEN ha ELSE Append(ha, ConstructedWords(W, cb))
                IN  /\ heap = hb
                    /\ objs = [x \in Instances |->
                          IF x = "a"
                          THEN Instance(Len(ha), ca.size,
                                        calculate_storage_size(ca.size, W), TRUE)
                          ELSE IF x = "b"
                          THEN Instance(IF cb.null THEN 0 ELSE Len(hb), cb.size,
                                        calculate_storage_size(cb.size, W), TRUE)
                          ELSE NoInstance]
    /\ fault = "none"
    /\ last = InstanceCall("construct", "a", "b")
    /\ pre = [objs |-> objs, heap |-> heap]
    /\ ncalls = 0
    /\ loop = NoLoop
    /\ fixed = NoFixed

CopyNext ==
    \/ CopyConstruct
    \/ MoveConstruct
    \/ CopyAssign
    \/ MoveAssign
    \/ Destroy
    \/ PushBackOn
    \/ PopBackOn
    \/ PushBackBlockOn
    \/ PopBackBlockOn
    \/ ResizeOn

SpecCopy == CopyInit /\ [][CopyNext]_vars

----------------------------------------------------------------------------
(* Range calls with any arguments, and the pattern fill *)

\* Sizes the objects of the range behaviours are constructed with: those of
\* GrowSizes and two sizes with three words.
RangeSizes(W) == GrowSizes(W) \cup {2 * W + 1, 3 * W}

\* begin and end of a range call that need not be valid: any index up to MaxPast
\* bits past the size.
RangeArgs == 0 .. m_size + MaxPast

\* Steps the pattern fill is called with: up to MaxStep, one word, one and a half
\* and two words (for which it takes blocks_size from the GCD and from
\* step / m_block_size), and three words, which fill_in_range_fastest passes to the
\* single-bit loop.
PatternSteps(W) == (0 .. MaxStep) \cup {W, W + W \div 2, 2 * W, 3 * W}

\* The array together with the memory that follows it, far enough for every word a
\* range call with these arguments addresses; the words past the array read as 0.
Memory(data) ==
    LET n == (m_size + MaxPast) \div m_block_size + 1
    IN  [j \in 0 .. (IF n < Cardinality(DOMAIN data) THEN Cardinality(DOMAIN data) ELSE n) - 1 |->
            IF j \in DOMAIN data THEN data[j] ELSE 0]

\* What a call that ran on Memory(data) has left in the array itself.
Within(data, memory) == [j \in DOMAIN data |-> memory[j]]

\* Whether a call that writes the words in `words` writes outside the array.
Wild(data, words) == \E w \in words : w \notin DOMAIN data

\* The words the per-bit loops of fill_in_range(begin, end, value) and
\* reset_in_range(begin, end) write: the head word when its loop runs, the tail word.
FillHeadTail(begin, end) ==
    LET W == m_block_size
        end_bit == IF begin \div W = end \div W THEN end % W ELSE W
    IN  (IF begin % W # 0 /\ begin % W < end_bit THEN {begin \div W} ELSE {})
        \cup (IF ToSub(begin, end) = 1 THEN {end \div W} ELSE {})

\* The words flip_in_range(begin, end) writes: head, whole words, tail.
FlipWords(begin, end) ==
    LET W == m_block_size
    IN  (IF begin % W # 0 THEN {begin \div W} ELSE {})
        \cup (begin \div W + ToAdd(begin)) .. (end \div W - 1)
        \cup (IF end % W # 0 THEN {end \div W} ELSE {})

\* The words the loop for (i = begin; i < end; i += step) writes; with step = 0 it
\* writes the word of begin over and over.
StrideWords(begin, end, step) ==
    {i \div m_block_size : i \in {k \in begin .. end - 1 : step = 0 \/ (k - begin) % step = 0}}

\* What the ::memset of a contiguous fill runs into.  A memset of length 0 writes
\* nothing, wherever its first argument points.
MemSetFault(data, begin, end) ==
    IF /\ memset_length(begin, end) # 0
       /\ MemSetOverrun(data, memset_first(begin), memset_length(begin, end))
    THEN "memset overrun" ELSE "none"

\* What a strided loop runs into: a write outside the array, or, with step = 0 and
\* begin < end, a loop whose index never advances.
StrideFault(data, begin, end, step) ==
    IF Wild(data, StrideWords(begin, end, step)) THEN "wild write"
    ELSE IF step = 0 /\ begin < end THEN "no return"
    ELSE "none"

FillInRangeAny ==
    /\ CanCall
    /\ \E begin \in RangeArgs, end \in RangeArgs, value \in BOOLEAN :
          Returns(Call("fill_in_range", 0, begin, end, 1, value, 0),
                  Within(m_data, fill_in_range(Memory(m_data), begin, end, value).data),
                  IF Wild(m_data, FillHeadTail(begin, end)) THEN "wild write"
                  ELSE MemSetFault(m_data, begin, end))

ResetInRangeAny ==
    /\ CanCall
    /\ \E begin \in RangeArgs, end \in RangeArgs :
          Returns(Call("reset_in_range", 0, begin, end, 1, FALSE, 0),
                  Within(m_data, reset_in_range(Memory(m_data), begin, end).data),
                  IF Wild(m_data, FillHeadTail(begin, end)) THEN "wild write"
                  ELSE MemSetFault(m_data, begin, end))

FlipInRangeAny ==
    /\ CanCall
    /\ \E begin \in RangeArgs, end \in RangeArgs :
          Returns(Call("flip_in_range", 0, begin, end, 1, FALSE, 0),
                  Within(m_data, flip_in_range(Memory(m_data), begin, end)),
                  IF Wild(m_data, FlipWords(begin, end)) THEN "wild write" ELSE "none")

\* The strided calls.  With step = 0 the loop is followed through its first
\* iteration, which every later one repeats.
FillInRangeStepAny ==
    /\ CanCall
    /\ \E begin \in RangeArgs, end \in RangeArgs, step \in 0 .. MaxStep, value \in BOOLEAN :
          Returns(Call("fill_in_range_step", 0, begin, end, step, value, 0),
                  Within(m_data,
                         IF step = 0
                         THEN fill_in_range_step(Memory(m_data), begin,
                                                 IF begin < end THEN begin + 1 ELSE end,
                                                 1, value)
                         ELSE fill_in_range_step(Memory(m_data), begin, end, step, value)),
                  StrideFault(m_data, begin, end, step))

ResetInRangeStepAny ==
    /\ CanCall
    /\ \E begin \in RangeArgs, end \in RangeArgs, step \in 0 .. MaxStep :
          Returns(Call("reset_in_range_step", 0, begin, end, step, FALSE, 0),
                  Within(m_data,
                         IF step = 0
                         THEN reset_in_range_step(Memory(m_data), begin,
                                                  IF begin < end THEN begin + 1 ELSE end, 1)
                         ELSE reset_in_range_step(Memory(m_data), begin, end, step)),
                  StrideFault(m_data, begin, end, step))

FlipInRangeStepAny ==
    /\ CanCall
    /\ \E begin \in RangeArgs, end \in RangeArgs, step \in 0 .. MaxStep :
          Returns(Call("flip_in_range_step", 0, begin, end, step, FALSE, 0),
                  Within(m_data,
                         IF step = 0
                         THEN flip_in_range_step(Memory(m_data), begin,
                                                 IF begin < end THEN begin + 1 ELSE end, 1)
                         ELSE flip_in_range_step(Memory(m_data), begin, end, step)),
                  StrideFault(m_data, begin, end, step))

\* fill_in_range_optimized with begin <= end <= size
FillInRangeOptimized ==
    /\ CanCall
    /\ \E end \in 0 .. m_size, step \in PatternSteps(m_block_size), value \in BOOLEAN :
          \E begin \in 0 .. end :
             LET r == fill_in_range_optimized(m_data, begin, end, step, value)
             IN  Returns(Call("fill_in_range_optimized", 0, begin, end, step, value, 0),
                         r.data, r.fault)

\* fill_in_range_fastest with begin <= end <= size
FillInRangeFastest ==
    /\ CanCall
    /\ \E end \in 0 .. m_size, step \in PatternSteps(m_block_size), value \in BOOLEAN :
          \E begin \in 0 .. end :
             LET r == fill_in_range_fastest(m_data, begin, end, step, value)
             IN  Returns(Call("fill_in_range_fastest", 0, begin, end, step, value, 0),
                         r.data, r.fault)

RangeInit ==
    /\ \E W \in BlockWidths : \E size \in RangeSizes(W), block \in Blocks(W) :
          ConstructSizeBlock(W, size, block)
    /\ fault = "none"
    /\ last = NoCall
    /\ pre = Snapshot
    /\ ncalls = 0
    /\ OneInstance
    /\ loop = NoLoop
    /\ fixed = NoFixed

RangeNext ==
    \/ FillInRangeAny
    \/ ResetInRangeAny
    \/ FlipInRangeAny
    \/ FillInRangeStepAny
    \/ ResetInRangeStepAny
    \/ FlipInRangeStepAny
    \/ FillInRangeOptimized
    \/ FillInRangeFastest

SpecRange == RangeInit /\ [][RangeNext]_vars

----------------------------------------------------------------------------
(* The strided loops, iteration by iteration *)

\* Sizes the objects of the loop behaviours are constructed with.
LoopSizes(W) == {0, 1, W, W + 1}

\* Steps the loops are entered with: up to MaxStep, and 2^16, which the uint16_t
\* index of the beginning-block loop of fill_in_range_optimized cannot hold.
LoopSteps == (0 .. MaxStep) \cup {Pow2(16)}

\* The loop index of a call in progress, and the number of passes made through the
\* loop body.
InLoop(i, passes) == [running |-> TRUE, i |-> i, passes |-> passes]

\* Number of bits in the range of the call in progress.
RangeLength == IF last.begin < last.end THEN last.end - last.begin ELSE 0

\* A loop is followed until it is left, or until it has made one pass more than the
\* range has bits.
CanIterate == loop.running /\ loop.passes <= RangeLength

StridedCalls == {"fill_in_range_step", "reset_in_range_step", "flip_in_range_step"}

\* A call is entered: its arguments are recorded and its loop index initialized.
Enters(call, i) ==
    /\ last' = call
    /\ pre' = Snapshot
    /\ ncalls' = ncalls + 1
    /\ loop' = InLoop(i, 0)
    /\ UNCHANGED <<m_block_size, m_data, m_null, m_size, m_storage_size, fault, objs, heap,
                   fixed>>

\* fill_in_range(begin, end, step, value), reset_in_range(begin, end, step) or
\* flip_in_range(begin, end, step) is called with begin and end up to size and any
\* step: uint64_t i = begin
EnterStrided ==
    /\ CanCall
    /\ \E name \in StridedCalls, begin \in 0 .. m_size, end \in 0 .. m_size,
          step \in LoopSteps :
          \E value \in (IF name = "fill_in_range_step" THEN BOOLEAN ELSE {FALSE}) :
             Enters(Call(name, 0, begin, end, step, value, 0), begin)

\* One pass through for (uint64_t i = begin; i < end; i += step): the test, and
\* either the body and the increment, or the return.
IterateStrided ==
    /\ CanIterate
    /\ last.name \in StridedCalls
    /\ IF loop.i < last.end
       THEN /\ m_data' =
                  IF last.name = "fill_in_range_step"
                  THEN fill_in_range_step(m_data, loop.i, loop.i + 1, 1, last.value)
                  ELSE IF last.name = "reset_in_range_step"
                  THEN reset_in_range_step(m_data, loop.i, loop.i + 1, 1)
                  ELSE flip_in_range_step(m_data, loop.i, loop.i + 1, 1)
            /\ loop' = InLoop(loop.i + last.step, loop.passes + 1)
       ELSE /\ m_data' = m_data
            /\ loop' = NoLoop
    /\ UNCHANGED <<m_block_size, m_null, m_size, m_storage_size, fault, last, pre, ncalls,
                   objs, heap, fixed>>

\* fill_in_range_optimized(begin, end, step, value) is called with
\* begin <= end <= size: blocks_size is computed, dividing by step, and the
\* beginning-block loop is entered with uint16_t i = begin % m_block_size.
EnterPattern ==
    /\ CanCall
    /\ \E end \in 0 .. m_size, step \in LoopSteps, value \in BOOLEAN : \E begin \in 0 .. end :
          IF step = 0
          THEN Returns(Call("fill_in_range_optimized", 0, begin, end, step, value, 0),
                       m_data, "division by zero")
          ELSE Enters(Call("fill_in_range_optimized", 0, begin, end, step, value, 0),
                      begin % m_block_size)

\* One pass through for (uint16_t i = begin % m_block_size; i < end_bit; i += step),
\* the sum being stored back into the uint16_t; when the loop is left, the pattern
\* loops, whose indices all advance by one up to a fixed limit, run to the return.
IteratePattern ==
    /\ CanIterate
    /\ last.name = "fill_in_range_optimized"
    /\ LET W == m_block_size
           end_bit == IF last.begin \div W = last.end \div W THEN last.end % W ELSE W
           n == IF blocks_size(last.step) < m_storage_size
                THEN blocks_size(last.step) ELSE m_storage_size
       IN  IF loop.i < end_bit
           THEN /\ m_data' = [m_data EXCEPT ![last.begin \div W] =
                                 IF last.value THEN OrBit(@, loop.i, W)
                                 ELSE AndNotBit(@, loop.i, W)]
                /\ loop' = InLoop((loop.i + last.step) % Pow2(16), loop.passes + 1)
           ELSE /\ m_data' = pattern_loop(m_data, 0, n,
                                          last.begin \div W + 1 + last.step \div W,
                                          pattern_offset(last.begin, last.step),
                                          last.end, last.step, last.value)
                /\ loop' = NoLoop
    /\ UNCHANGED <<m_block_size, m_null, m_size, m_storage_size, fault, last, pre, ncalls,
                   objs, heap, fixed>>

LoopInit ==
    /\ \E W \in BlockWidths : \E size \in LoopSizes(W), block \in Blocks(W) :
          ConstructSizeBlock(W, size, block)
    /\ fault = "none"
    /\ last = NoCall
    /\ pre = Snapshot
    /\ ncalls = 0
    /\ OneInstance
    /\ loop = NoLoop
    /\ fixed = NoFixed

LoopNext ==
    \/ EnterStrided
    \/ IterateStrided
    \/ EnterPattern
    \/ IteratePattern

SpecLoop == LoopInit /\ [][LoopNext]_vars

----------------------------------------------------------------------------
(* The fixed variant CBitSet<BlockType, Size>, run alongside the dynamic one *)

\* CBitSet<BlockType, Size> has m_size = Size, m_storage_size =
\* calculate_storage_size(Size) and the inline array BlockType m_data[m_storage_size].
\* Run alongside a CDynamicBitSet of the same BlockType and size it shares
\* m_block_size, m_size and m_storage_size with it; its array is kept in fixed.
\* set, reset, flip, the contiguous fill_in_range and flip_in_range, the strided
\* fill_in_range and reset_in_range, set_block, test, all and count have the bodies of
\* the dynamic class (with m_data[i] written for *(m_data + i) and the value or block
\* as first parameter), so the operators above are applied to fixed for them.  The
\* bodies that differ are translated here.  CBitSet::any() (lines 2005-2021) names the
\* member function size in size % m_block_size and cannot be instantiated; it is
\* left out.

\* Sizes the two variants are compared at.
PairSizes(W) == {1, W - 1, W, W + 1, 2 * W, 2 * W + 1}

\* CBitSet::reset_in_range(begin, end): the loop over the bits of the first word
\* writes m_data[end / m_block_size].
CBitSet_reset_in_range(data, begin, end) ==
    LET W == m_block_size
        head == begin % W # 0
        end_bit == IF begin \div W = end \div W THEN end % W ELSE W
        wild == head /\ begin % W < end_bit /\ end \div W \notin DOMAIN data
        d1 == IF head /\ end \div W \in DOMAIN data
              THEN [data EXCEPT ![end \div W] = AndNotBits(@, begin % W, end_bit, W)]
              ELSE data
        to_add == IF head THEN 1 ELSE 0
        tail == end % W # 0 /\ begin \div W # end \div W
        d2 == IF tail
              THEN [d1 EXCEPT ![end \div W] = AndNotBits(@, 0, end % W, W)]
              ELSE d1
        to_sub == IF tail THEN 1 ELSE 0
        dst == begin \div W + to_add
        nbytes == ((end - begin) \div W) * SizeOf(W) - to_sub
    IN  IF wild THEN [data |-> data, fault |-> "wild write"]
        ELSE IF MemSetOverrun(d2, dst, nbytes)
        THEN [data |-> MemSetToEnd(d2, dst, 0), fault |-> "memset overrun"]
        ELSE [data |-> memset(d2, dst, 0, nbytes), fault |-> "none"]

\* CBitSet::flip_in_range(begin, end, step): for (i = begin; i < end; i += step)
\* m_data[i] ^= BlockType{ 1 } << i % m_block_size, the word index being the bit index.
RECURSIVE CBitSet_flip_in_range_step(_, _, _, _)
CBitSet_flip_in_range_step(data, i, end, step) ==
    LET W == m_block_size
    IN  IF i >= end THEN [data |-> data, fault |-> "none"]
        ELSE IF i \notin DOMAIN data THEN [data |-> data, fault |-> "wild write"]
        ELSE CBitSet_flip_in_range_step([data EXCEPT ![i] = XorBit(@, i % W, W)],
                                        i + step, end, step)

\* CBitSet::test(index)
CBitSet_test(index) ==
    Bit(fixed[index \div m_block_size], m_block_size - (index % m_block_size)) # 0

\* CBitSet::all()
CBitSet_all ==
    LET whole == m_storage_size - (IF m_size % m_block_size # 0 THEN 1 ELSE 0)
    IN  /\ \A i \in 0 .. whole - 1 : fixed[i] = max_value(m_block_size)
        /\ m_size % m_block_size # 0 =>
              \A i \in 0 .. (m_size % m_block_size) - 1 :
                  Bit(fixed[m_size \div m_block_size], i) # 0

\* CBitSet::none(): false when a whole word is not zero; otherwise true when a bit of
\* the last, partial word is set; otherwise false.
CBitSet_none ==
    LET whole == m_storage_size - (IF m_size % m_block_size # 0 THEN 1 ELSE 0)
    IN  IF \E i \in 0 .. whole - 1 : fixed[i] # 0 THEN FALSE
        ELSE /\ m_size % m_block_size # 0
             /\ \E i \in 0 .. (m_size % m_block_size) - 1 :
                    Bit(fixed[m_size \div m_block_size], i) # 0

\* CBitSet::count(), whose loop starts with BlockType* i = m_data in a const member
\* function: accepted by a permissive build only, where it counts as the dynamic one.
RECURSIVE CBitSet_CountFrom(_)
CBitSet_CountFrom(i) ==
    IF i >= m_storage_size THEN 0
    ELSE CountBlock(fixed[i], m_block_size) + CBitSet_CountFrom(i + 1)

CBitSet_count == CBitSet_CountFrom(0)

\* A call that returns having changed the array given.
Done(data) == [data |-> data, fault |-> "none"]

\* The same call is made on the two objects; dyn and fix are what it makes of the
\* dynamic and of the fixed one.
BothReturn(call, dyn, fix) ==
    /\ m_data' = dyn.data
    /\ fixed' = fix.data
    /\ fault' = IF dyn.fault # "none" THEN dyn.fault ELSE fix.fault
    /\ last' = call
    /\ pre' = Snapshot
    /\ ncalls' = ncalls + 1
    /\ UNCHANGED <<m_block_size, m_null, m_size, m_storage_size, objs, heap, loop>>

BothSet ==
    /\ CanCall
    /\ \E index \in 0 .. m_size - 1, value \in BOOLEAN :
          BothReturn(Call("set", index, 0, 0, 0, value, 0),
                     Done(set(m_data, index, value)), Done(set(fixed, index, value)))

BothReset ==
    /\ CanCall
    /\ \E index \in 0 .. m_size - 1 :
          BothReturn(Call("reset", index, 0, 0, 0, FALSE, 0),
                     Done(reset(m_data, index)), Done(reset(fixed, index)))

BothFlip ==
    /\ CanCall
    /\ \E index \in 0 .. m_size - 1 :
          BothReturn(Call("flip", index, 0, 0, 0, FALSE, 0),
                     Done(flip(m_data, index)), Done(flip(fixed, index)))

BothSetBlock ==
    /\ CanCall
    /\ \E index \in 0 .. m_storage_size - 1, block \in Blocks(m_block_size) :
          BothReturn(Call("set_block", index, 0, 0, 0, FALSE, block),
                     Done(set_block(m_data, index, block)),
                     Done(set_block(fixed, index, block)))

BothFillInRange ==
    /\ CanCall
    /\ \E end \in 0 .. m_size, value \in BOOLEAN : \E begin \in 0 .. end :
          BothReturn(Call("fill_in_range", 0, begin, end, 1, value, 0),
                     fill_in_range(m_data, begin, end, value),
                     fill_in_range(fixed, begin, end, value))

BothResetInRange ==
    /\ CanCall
    /\ \E end \in 0 .. m_size : \E begin \in 0 .. end :
          BothReturn(Call("reset_in_range", 0, begin, end, 1, FALSE, 0),
                     reset_in_range(m_data, begin, end),
                     CBitSet_reset_in_range(fixed, begin, end))

BothFlipInRange ==
    /\ CanCall
    /\ \E end \in 0 .. m_size : \E begin \in 0 .. end :
          BothReturn(Call("flip_in_range", 0, begin, end, 1, FALSE, 0),
                     Done(flip_in_range(m_data, begin, end)),
                     Done(flip_in_range(fixed, begin, end)))

BothFillInRangeStep ==
    /\ CanCall
    /\ \E end \in 0 .. m_size, step \in 1 .. MaxStep, value \in BOOLEAN :
          \E begin \in 0 .. end :
             BothReturn(Call("fill_in_range_step", 0, begin, end, step, value, 0),
                        Done(fill_in_range_step(m_data, begin, end, step, value)),
                        Done(fill_in_range_step(fixed, begin, end, step, value)))

BothResetInRangeStep ==
    /\ CanCall
    /\ \E end \in 0 .. m_size, step \in 1 .. MaxStep : \E begin \in 0 .. end :
          BothReturn(Call("reset_in_range_step", 0, begin, end, step, FALSE, 0),
                     Done(reset_in_range_step(m_data, begin, end, step)),
                     Done(reset_in_range_step(fixed, begin, end, step)))

BothFlipInRangeStep ==
    /\ CanCall
    /\ \E end \in 0 .. m_size, step \in 1 .. MaxStep : \E begin \in 0 .. end :
          BothReturn(Call("flip_in_range_step", 0, begin, end, step, FALSE, 0),
                     Done(flip_in_range_step(m_data, begin, end, step)),
                     CBitSet_flip_in_range_step(fixed, begin, end, step))

\* CDynamicBitSet<BlockType> d(size, list) and CBitSet<BlockType, size> f(list), with
\* the same list of calculate_storage_size(size) blocks.
PairInit ==
    /\ \E W \in BlockWidths : \E size \in PairSizes(W) :
          \E list \in [0 .. calculate_storage_size(size, W) - 1 -> Blocks(W)] :
             /\ ConstructSizeList(W, size, list)
             /\ fixed = list
    /\ fault = "none"
    /\ last = NoCall
    /\ pre = [data |-> m_data, size |-> m_size, storage_size |-> m_storage_size]
    /\ ncalls = 0
    /\ OneInstance
    /\ loop = NoLoop

PairNext ==
    \/ BothSet
    \/ BothReset
    \/ BothFlip
    \/ BothSetBlock
    \/ BothFillInRange
    \/ BothResetInRange
    \/ BothFlipInRange
    \/ BothFillInRangeStep
    \/ BothResetInRangeStep
    \/ BothFlipInRangeStep

SpecPair == PairInit /\ [][PairNext]_vars

----------------------------------------------------------------------------
(* The contract the claims are stated against *)

\* The logical bit with index i: bit offset i % W of word i / W.
LogicalBit(data, i) == Bit(data[i \div m_block_size], i % m_block_size)

\* The indices of the logical bits that are set.
SetBits(data, size) == {i \in 0 .. size - 1 : LogicalBit(data, i) = 1}

\* Whether the logical bit with index i is held by both arrays, with the same value.
SameBit(d1, d2, i) ==
    /\ i \div m_block_size \in DOMAIN d1
    /\ i \div m_block_size \in DOMAIN d2
    /\ LogicalBit(d1, i) = LogicalBit(d2, i)

\* What test(i) and operator[](i) return on the array data.
ReadBit(data, i) == Bit(data[i \div m_block_size], m_block_size - (i % m_block_size)) # 0

\* Whether a strided range call targets index i.
InStride(i, begin, end, step) == begin <= i /\ i < end /\ (i - begin) % step = 0

\* Number of bits the allocation holds.
AllocatedBits == Cardinality(DOMAIN m_data) * m_block_size

\* No two live instances own the same buffer.
NoAliasing ==
    \A x \in Live, y \in Live : (x # y /\ objs[x].ptr # 0) => objs[x].ptr # objs[y].ptr

\* Every buffer is owned by a live instance until it is given to delete[], once.
ReleasedOnce ==
    \A p \in 1 .. Len(heap) :
        /\ heap[p].freed <= 1
        /\ heap[p].freed = 0 <=> \E x \in Live : objs[x].ptr = p

----------------------------------------------------------------------------
(* Claims *)

\* C1: round trip: after set(i) with i < size, test(i) and operator[](i) return
\* true; after reset(i) (or set(i, false)) they return false.
C1_RoundTrip ==
    /\ (last.name = "set" /\ last.value) =>
           (fault = "none" /\ test(last.index) /\ subscript(last.index))
    /\ (last.name = "reset" \/ (last.name = "set" /\ ~last.value)) =>
           (fault = "none" /\ ~test(last.index) /\ ~subscript(last.index))

\* C2: contiguous fill is exact: after fill_in_range(begin, end, value) or
\* reset_in_range(begin, end) the call has returned, every bit in [begin, end) equals
\* the value and every other bit in [0, size) keeps its previous value.
C2_FillExact ==
    last.name \in {"fill_in_range", "reset_in_range"} =>
        /\ fault = "none"
        /\ \A i \in 0 .. m_size - 1 :
              LogicalBit(m_data, i) =
                 IF last.begin <= i /\ i < last.end THEN AsBit(last.value)
                 ELSE LogicalBit(pre.data, i)

\* C3: after fill_in_range(0, size, true) all() returns true, and after
\* fill_in_range(0, size, false) none() returns true.
C3_FillWhole ==
    (last.name = "fill_in_range" /\ last.begin = 0 /\ last.end = m_size) =>
        /\ fault = "none"
        /\ IF last.value THEN all ELSE none

\* C4: on an all-clear bitset constructed by size, after
\* fill_in_range(begin, end, true) count() returns end - begin.
C4_CountAfterFill ==
    (/\ last.name = "fill_in_range"
     /\ last.value
     /\ ncalls = 1
     /\ \A j \in DOMAIN pre.data : pre.data[j] = 0) =>
        (fault = "none" /\ count = last.end - last.begin)

\* C5: count() returns the number of set bits among the indices [0, size) only,
\* whatever the padding bits of the last word hold.
C5_CountExcludesPadding ==
    fault = "none" => count = Cardinality(SetBits(m_data, m_size))

\* C6: none() is the negation of any() in every reachable state.
C6_NoneIsNotAny ==
    fault = "none" => (none <=> ~any)

\* C7: all() returns true if and only if every bit with index in [0, size) is set.
C7_AllIffAllSet ==
    fault = "none" => (all <=> \A i \in 0 .. m_size - 1 : LogicalBit(m_data, i) = 1)

\* C8: strided range calls hit exactly the stride: after
\* fill_in_range(begin, end, step, value) or reset_in_range(begin, end, step) every
\* bit begin, begin + step, ... below end equals the target value and every other
\* bit of the allocation, the bit at end included, is unchanged.
C8_StridedExact ==
    last.name \in {"fill_in_range_step", "reset_in_range_step"} =>
        /\ fault = "none"
        /\ m_size = pre.size /\ m_storage_size = pre.storage_size
        /\ DOMAIN m_data = DOMAIN pre.data
        /\ \A i \in 0 .. AllocatedBits - 1 :
              LogicalBit(m_data, i) =
                 IF InStride(i, last.begin, last.end, last.step) THEN AsBit(last.value)
                 ELSE LogicalBit(pre.data, i)

\* C8 witness: a strided fill with step 3 that crosses a word boundary, stops short
\* of a bit at end that was clear, and changed the array.
C8_Witness ==
    /\ last.name = "fill_in_range_step" /\ last.value /\ last.step = 3
    /\ fault = "none"
    /\ last.begin % m_block_size # 0
    /\ last.end - last.begin > m_block_size
    /\ (last.end - last.begin) % last.step = 0
    /\ last.end < AllocatedBits /\ LogicalBit(m_data, last.end) = 0
    /\ m_data # pre.data

\* C9: double flip is the identity: calling flip_in_range(begin, end) again on the
\* state a first flip_in_range(begin, end) produced restores every storage word.
C9_DoubleFlip ==
    last.name = "flip_in_range" =>
        /\ fault = "none"
        /\ flip_in_range(m_data, last.begin, last.end) = pre.data

\* C9 witness: a flip_in_range over a non-empty range that starts inside a word and
\* spans a whole word and a partial tail, and changed the array.
C9_Witness ==
    /\ last.name = "flip_in_range"
    /\ fault = "none"
    /\ last.begin % m_block_size # 0
    /\ last.end % m_block_size # 0
    /\ last.end \div m_block_size >= last.begin \div m_block_size + 2
    /\ m_data # pre.data

\* C10: contiguous flip is exact: flip_in_range(begin, end) inverts every bit in
\* [begin, end) and leaves every other bit in [0, size) unchanged.
C10_FlipExact ==
    last.name = "flip_in_range" =>
        /\ fault = "none"
        /\ \A i \in 0 .. m_size - 1 :
              LogicalBit(m_data, i) =
                 IF last.begin <= i /\ i < last.end THEN 1 - LogicalBit(pre.data, i)
                 ELSE LogicalBit(pre.data, i)

\* C11: single-bit mutators have no side effects beyond the target bit: set(i, value),
\* reset(i) and flip(i) with i < size change at most the one stored bit test(i) reads,
\* every other bit of every word is unchanged, and flip(i) toggles what test(i) reads.
C11_SingleBitFrame ==
    last.name \in {"set", "reset", "flip"} =>
        LET W == m_block_size
            word == last.index \div W
            shift == W - (last.index % W)
        IN  /\ fault = "none"
            /\ DOMAIN m_data = DOMAIN pre.data
            /\ \A j \in DOMAIN m_data, k \in 0 .. W - 1 :
                  (j # word \/ k # shift) => Bit(m_data[j], k) = Bit(pre.data[j], k)
            /\ last.name = "flip" =>
                  test(last.index) # (Bit(pre.data[word], shift) # 0)

\* C12: push_back(v) appends one logical bit: from any reachable state with size s,
\* after push_back(v) the size is s + 1, the bit at index s equals v, every bit in
\* [0, s) is unchanged, and a word is added to the storage only when s was a multiple
\* of W.
C12_PushBackAppends ==
    last.name = "push_back" =>
        /\ fault = "none"
        /\ m_size = pre.size + 1
        /\ pre.size \div m_block_size \in DOMAIN m_data
        /\ LogicalBit(m_data, pre.size) = AsBit(last.value)
        /\ \A i \in 0 .. pre.size - 1 : SameBit(m_data, pre.data, i)
        /\ m_storage_size =
              pre.storage_size + (IF pre.size % m_block_size = 0 THEN 1 ELSE 0)

\* C13: pop_back() removes the last bit: from any state with size s >= 1 the size
\* becomes s - 1 and the bits in [0, s - 1) are unchanged, and the buffer and
\* storage_size shrink by one word exactly when the new size s - 1 is a multiple of
\* W, not otherwise.
C13_PopBackShrinks ==
    (last.name = "pop_back" /\ pre.size # 0) =>
        LET shrink == IF (pre.size - 1) % m_block_size = 0 THEN 1 ELSE 0
        IN  /\ fault = "none"
            /\ m_size = pre.size - 1
            /\ \A i \in 0 .. pre.size - 2 : SameBit(m_data, pre.data, i)
            /\ m_storage_size = pre.storage_size - shrink
            /\ Cardinality(DOMAIN m_data) = Cardinality(DOMAIN pre.data) - shrink

\* C14: push_back_block(word) appends a whole word and rounds size up: from size s
\* the new size is ceil(s / W) * W + W, storage_size grows by exactly one, the last
\* storage word equals the pushed word, and all previous words are unchanged.
C14_PushBackBlock ==
    last.name = "push_back_block" =>
        LET W == m_block_size
        IN  /\ fault = "none"
            /\ m_size = ((pre.size + W - 1) \div W) * W + W
            /\ m_storage_size = pre.storage_size + 1
            /\ m_data[m_storage_size - 1] = last.block
            /\ \A j \in 0 .. pre.storage_size - 1 : m_data[j] = pre.data[j]

\* C15: pop_back_block() removes the last whole word and rounds size down to a word
\* multiple: from any non-empty state storage_size decreases by exactly one, the
\* resulting size is a multiple of W that agrees with the new storage_size
\* (size = storage_size * W), and the remaining words are unchanged.
C15_PopBackBlock ==
    (last.name = "pop_back_block" /\ pre.size # 0) =>
        /\ fault = "none"
        /\ m_storage_size = pre.storage_size - 1
        /\ m_size % m_block_size = 0
        /\ m_size = m_storage_size * m_block_size
        /\ \A j \in 0 .. m_storage_size - 1 : m_data[j] = pre.data[j]

\* C16: resize preserves the prefix: after resize(size + k)
\* every index in the old [0, size) reads its pre-resize value; after resize(size - k)
\* followed by resize(size), every index in [0, size - k) reads its original value.
C16_ResizePrefix ==
    /\ (last.name = "resize" /\ Less(pre.size, last.index)) =>
          /\ fault = "none"
          /\ m_size = last.index
          /\ \A i \in 0 .. pre.size - 1 :
                /\ SameBit(m_data, pre.data, i)
                /\ test(i) = ReadBit(pre.data, i)
    /\ (/\ last.name = "resize" /\ ncalls >= 2
        /\ pre.last.name = "resize"
        /\ Less(pre.last.index, pre.pre.size)
        /\ last.index = pre.pre.size) =>
          /\ fault = "none"
          /\ m_size = pre.pre.size
          /\ \A i \in 0 .. pre.last.index - 1 :
                /\ SameBit(m_data, pre.pre.data, i)
                /\ test(i) = ReadBit(pre.pre.data, i)

\* C17: shrinking then growing does not resurrect stale bits: after resize(n) with
\* n < size followed by resize(m) with m > n, no bit with index in [n, m) is reported
\* as set merely because it was set before the shrink.  The bits of [n, m) that lie
\* in the words kept from before the shrink read clear, and when the new words hold
\* no set bit, count() and any() report the bits of [0, n) only.
C17_NoStaleBits ==
    (/\ last.name = "resize" /\ ncalls >= 2
     /\ pre.last.name = "resize"
     /\ Less(pre.last.index, pre.pre.size)
     /\ last.index > pre.last.index) =>
        LET W == m_block_size
            n == pre.last.index
            m == last.index
            kept == (n + W - 1) \div W
        IN  /\ fault = "none"
            /\ \A i \in n .. m - 1 : i \div W < kept => LogicalBit(m_data, i) = 0
            /\ (\A j \in kept .. m_storage_size - 1 : m_data[j] = 0) =>
                  /\ count = Cardinality(SetBits(m_data, n))
                  /\ any <=> SetBits(m_data, n) # {}

\* C18: move empties the source: after move construction or move assignment from a
\* distinct instance, the destination holds the source's former size, storage_size
\* and buffer, and the source has size 0, storage_size 0 and a null buffer;
\* move-assigning an instance to itself changes nothing.
C18_MoveEmptiesSource ==
    /\ (last.name \in {"move_constructor", "move_assignment"} /\ last.this # last.other) =>
          LET dst == objs[last.this]
              src == pre.objs[last.other]
          IN  /\ fault = "none"
              /\ dst.live
              /\ dst.ptr = src.ptr
              /\ dst.size = src.size
              /\ dst.storage_size = src.storage_size
              /\ dst.ptr # 0 =>
                    /\ heap[dst.ptr].words = pre.heap[dst.ptr].words
                    /\ heap[dst.ptr].freed = 0
              /\ objs[last.other] = Instance(0, 0, 0, TRUE)
    /\ (last.name = "move_assignment" /\ last.this = last.other) =>
          /\ fault = "none"
          /\ objs = pre.objs
          /\ heap = pre.heap

\* C18 witness: after an earlier call, an instance that owns a buffer is
\* move-assigned from a distinct instance that holds W bits in a buffer of its own.
C18_Witness ==
    /\ last.name = "move_assignment"
    /\ last.this # last.other
    /\ fault = "none"
    /\ ncalls = 2
    /\ pre.objs[last.this].ptr # 0
    /\ pre.objs[last.other].ptr # 0
    /\ pre.objs[last.other].size >= m_block_size
    /\ heap[pre.objs[last.this].ptr].freed = 1

\* C19: no aliasing and exact deep copy: after any sequence of copy construction,
\* copy assignment, move construction, move assignment and growth operations, no two
\* live instances own the same buffer (so each buffer is released exactly once), and
\* a copy has the same size, storage_size and word contents as its source, while
\* copying never writes more words than the destination buffer holds.
C19_NoAliasingDeepCopy ==
    /\ fault = "none" => (NoAliasing /\ ReleasedOnce)
    /\ (last.name \in {"copy_constructor", "copy_assignment"} /\ last.this # last.other) =>
          LET dst == objs[last.this]
              src == objs[last.other]
          IN  /\ fault = "none"
              /\ dst.size = src.size
              /\ dst.storage_size = src.storage_size
              /\ \A j \in 0 .. src.storage_size - 1 : Words(last.this)[j] = Words(last.other)[j]

\* C20: construction from a word list infers the size from the word count:
\* constructing from a list of n words gives size n * W and storage_size n, with word
\* k equal to the k-th list element, and the constructor never copies more words
\* than it allocated.
C20_ListConstructor ==
    (last.name = "construct_list" /\ ncalls = 0) =>
        LET n == Cardinality(DOMAIN last.block)
        IN  /\ fault = "none"
            /\ m_size = n * m_block_size
            /\ m_storage_size = n
            /\ Cardinality(DOMAIN m_data) = n
            /\ \A k \in 0 .. n - 1 : m_data[k] = last.block[k]

\* C21: range operations reject invalid arguments without mutating: after a bulk
\* range call (fill_in_range, reset_in_range, flip_in_range, contiguous or strided)
\* with begin > end, end > size or step = 0 the call has returned and the size, the
\* storage_size and every storage word are what they were before the call.
C21_RejectsInvalidRanges ==
    (/\ last.name \in {"fill_in_range", "reset_in_range", "flip_in_range",
                       "fill_in_range_step", "reset_in_range_step", "flip_in_range_step"}
     /\ \/ last.begin > last.end
        \/ last.end > pre.size
        \/ last.step = 0) =>
        /\ fault = "none"
        /\ m_size = pre.size
        /\ m_storage_size = pre.storage_size
        /\ m_data = pre.data

\* C22: invariant I2: in every state reached by a constructor followed by any
\* sequence of push_back, pop_back, push_back_block, pop_back_block and resize,
\* storage_size equals ceil(size / W) when the operation returns.  A wrapped
\* (negative) m_size stands for a size near 2^64, whose ceil(size / W) no
\* m_storage_size of these behaviours equals.
C22_StorageSizeInvariant ==
    fault = "none" =>
        /\ m_size >= 0
        /\ m_storage_size = calculate_storage_size(m_size, m_block_size)

\* C23: invariant I3: in every reachable state the buffer pointer is non-null if and
\* only if storage_size > 0, including after constructing with size 0, after
\* resize(0) and after pop_back or pop_back_block removes the last word.
C23_NullIffNoStorage ==
    fault = "none" => (~m_null <=> m_storage_size > 0)

\* C27: the allocated buffer always covers the storage: after any sequence of
\* constructors, push_back, pop_back, push_back_block, pop_back_block and resize the
\* buffer holds at least storage_size words, and no growth or shrink operation copies
\* more words into a newly allocated buffer than that buffer was allocated with.
C27_BufferCoversStorage ==
    /\ ncalls > 0 => fault # "copy overrun"
    /\ fault = "none" => m_storage_size <= Allocated(This)

\* C28: the unsigned size counters never wrap: pop_back and pop_back_block never
\* leave a size or storage_size larger (as 64-bit unsigned values) than before the
\* call, leave size 0 when fewer bits than they remove are held, and never request an
\* allocation of storage_size - 1 words when storage_size is 0.
C28_CountersNeverWrap ==
    last.name \in {"pop_back", "pop_back_block"} =>
        /\ fault # "terminate"
        /\ ~Less(pre.size, m_size)
        /\ ~Less(pre.storage_size, m_storage_size)
        /\ (last.name = "pop_back_block" /\ Less(pre.size, m_block_size)) => m_size = 0
        /\ (last.name = "pop_back" /\ pre.size = 0) => m_size = 0

\* C25: single-bit reads and range writes address the same bit: on an all-clear
\* bitset, after fill_in_range(begin, end, true) or a strided fill with true,
\* test(i) and operator[](i) return true exactly for the indices the range operation
\* targeted and false for every other i in [0, size).
C25_ReadsWhatRangesWrite ==
    (/\ last.name \in {"fill_in_range", "fill_in_range_step"}
     /\ last.value
     /\ \A j \in DOMAIN pre.data : pre.data[j] = 0) =>
        /\ fault = "none"
        /\ \A i \in 0 .. m_size - 1 :
              /\ test(i) <=> InStride(i, last.begin, last.end, last.step)
              /\ subscript(i) <=> InStride(i, last.begin, last.end, last.step)

\* C26: contiguous range fills stay inside the storage: for every
\* begin <= end <= size the memset of fill_in_range and reset_in_range writes only
\* words with index in [begin / W, ceil(end / W)); its length never wraps below zero
\* and never covers a fraction of a word.
C26_BulkStaysInside ==
    (last.name \in {"fill_in_range", "reset_in_range"} /\ last.begin <= last.end) =>
        LET W == m_block_size
            first == memset_first(last.begin)
            length == memset_length(last.begin, last.end)
        IN  /\ fault = "none"
            /\ length >= 0
            /\ length % SizeOf(W) = 0
            /\ length > 0 =>
                  /\ last.begin \div W <= first
                  /\ first * SizeOf(W) + length
                        <= calculate_storage_size(last.end, W) * SizeOf(W)

\* C24: the word-at-a-time strided fill agrees with the single-bit reference: for
\* every begin <= end <= size, every step >= 2 and both values,
\* fill_in_range_optimized, and fill_in_range_fastest where it dispatches to it
\* (step <= 2.5 * W), leave exactly the word contents the single-bit loop
\* fill_in_range(begin, end, step, value) leaves from the same initial state.
C24_PatternFillAgrees ==
    (/\ last.name \in {"fill_in_range_optimized", "fill_in_range_fastest"}
     /\ last.step >= 2
     /\ last.name = "fill_in_range_fastest" => 2 * last.step <= 5 * m_block_size) =>
        /\ fault = "none"
        /\ m_data = fill_in_range_step(pre.data, last.begin, last.end, last.step, last.value)

\* C29: every range operation call terminates: whatever begin, end and step it is
\* called with, a strided loop of fill_in_range, reset_in_range or flip_in_range, and
\* the beginning-block loop of fill_in_range_optimized, makes no more passes than
\* the range has bits, and a call with step = 0 returns instead of looping or
\* failing.
C29_RangeCallsTerminate ==
    /\ loop.passes <= RangeLength
    /\ (ncalls = 1 /\ last.step = 0) => (fault = "none" /\ loop.passes = 0)

\* C30: the fixed and the dynamic variant are observationally equivalent: after the
\* same call (set, reset, flip, set_block, contiguous or strided fill_in_range,
\* reset_in_range or flip_in_range) on a CBitSet and a CDynamicBitSet of the same
\* word width and size holding the same words, the two hold the same words and
\* test, all, none and count return the same on both.
C30_FixedAndDynamicAgree ==
    ncalls = 1 =>
        /\ fault = "none"
        /\ fixed = m_data
        /\ \A index \in 0 .. m_size - 1 : CBitSet_test(index) = test(index)
        /\ CBitSet_all = all
        /\ CBitSet_none = none
        /\ CBitSet_count = count

====
